---- MODULE Spec2Model ----
(***************************************************************************)
(* Model of the Gitlab provider factory of pkg/scm/provider/gitlab:        *)
(* NewGitlab, getAPIVersion, detectAPIVersion, getOauthToken and the       *)
(* package-level map gitlabServerAPIVersions, called from several          *)
(* goroutines.  Strings that the code inspects (the server address) are    *)
(* sequences of string pieces, so that Contains / HasPrefix / concatenation*)
(* are computed and not assumed.                                           *)
(***************************************************************************)
EXTENDS Integers, Sequences, FiniteSets, TLC

\* ------------------------------------------------------------------ bounds
\* Number of goroutines that call NewGitlab.
NumUnits == 2
\* Total number of NewGitlab calls in one behaviour.
MaxCalls == 3

\* Largest language share in a getTopLanguage input.
MaxShare == 2

Units == 1..NumUnits

\* --------------------------------------------------------------- constants
apiPathForGitlabVersion == <<"/api/v4/version">>
gitLabServer == <<"https://", "gitlab.com">>
v3APIVersion == "v3"
v4APIVersion == "v4"
StatusOK == 200
StatusFound == 302
StatusNotFound == 404

\* ------------------------------------------------------------ input values
\* Server addresses a caller may configure: the public host over http (the
\* rewrite case) and https, a private host, the same host in another casing
\* with a trailing slash, a host that merely contains "gitlab.com", and an
\* address url.Parse rejects (invalid percent escape).
Servers ==
    { <<"http://", "gitlab.com">>,
      gitLabServer,
      <<"http://", "git.corp">>,
      <<"http://", "Git.Corp", "/">>,
      <<"http://", "gitlab.com", ".corp">>,
      <<"http://", "git.corp", "/%zz">> }
Usernames == {"", "user"}
Passwords == {"", "pw"}
Tokens == {"", "tok"}
AccessTokens == {"", "T"}
Configs ==
    [server : Servers, username : Usernames, password : Passwords, token : Tokens]
\* The configs the concurrent callers draw from: two server identities, one
\* of them the rewrite case; a caller with a private token and a caller that
\* has to exchange its password for a token.
ConcurrentConfigs ==
    { c \in Configs :
        /\ c.server \in { <<"http://", "gitlab.com">>, <<"http://", "Git.Corp", "/">> }
        /\ <<c.username, c.password, c.token>> \in
              { <<"", "", "tok">>, <<"user", "pw", "">> } }
NoConfig == [server |-> <<>>, username |-> "", password |-> "", token |-> ""]

StatusCodes == {StatusOK, 201, StatusFound, StatusNotFound, 500}
\* What the server (or the network) answers to the token exchange.
TokenResponses ==
    {[kind |-> "transport", status |-> 0, body |-> "none", access_token |-> ""]}
    \cup [kind : {"http"}, status : StatusCodes, body : {"readerr", "garbage"},
          access_token : {""}]
    \cup [kind : {"http"}, status : StatusCodes, body : {"json"},
          access_token : AccessTokens]
\* What the server (or the network) answers to the version probe.
ProbeResponses ==
    {[kind |-> "transport", status |-> 0, body |-> "none"]}
    \cup [kind : {"http"}, status : StatusCodes, body : {"readerr", "garbage", "json"}]

\* ------------------------------------------------------------ string helpers
\* strings.Contains(s, piece) for a piece that is one unit of the address.
Contains(s, piece) == \E i \in 1..Len(s) : s[i] = piece
\* strings.HasPrefix(s, piece).
HasPrefix(s, piece) == Len(s) >= 1 /\ s[1] = piece
\* url.Parse fails on an invalid percent escape.
Malformed(s) == Contains(s, "/%zz")

Lower(piece) == IF piece = "Git.Corp" THEN "git.corp" ELSE piece
\* provider.ParseServerURL: the normalised server identity used as cache key.
ParseServerURL(s) ==
    LET n == IF Len(s) >= 1 /\ s[Len(s)] = "/" THEN Len(s) - 1 ELSE Len(s)
    IN  [i \in 1..n |-> Lower(s[i])]

VARIABLES
    gitlabServerAPIVersions, \* the package-level map: identity -> version
    pc,          \* where each goroutine is inside NewGitlab
    scmCfg,      \* the *api.SCMConfig each goroutine passed (mutated in place)
    server,      \* getAPIVersion's local `server` (the cache key)
    version,     \* the version read from the map or detected
    ret,         \* what NewGitlab returned: provider and error
    sent,        \* the HTTP requests the current call has issued, in order
    raced,       \* how the goroutine's current map access overlapped others
    fatal,       \* the Go runtime aborted the process on a detected map race
    entryCfg,    \* history: the config as it was when NewGitlab was entered
    knownAtEntry,\* history: the key was in the map when NewGitlab was entered
    stored,      \* history: the map assignments the current call executed
    calls,       \* number of NewGitlab calls made so far
    recordStatus,\* transStatus: its argument
    gitlabStatus,\* transStatus: the (state, description) it returned
    languages,   \* getTopLanguage: its argument
    rangeOrder,  \* getTopLanguage: the order in which range visits the map
    language,    \* getTopLanguage: the language it returned
    called       \* the helpers among transStatus, getTopLanguage already run

factoryVars == <<gitlabServerAPIVersions, pc, scmCfg, server, version, ret, sent,
                 raced, fatal, entryCfg, knownAtEntry, stored, calls>>
helperVars == <<recordStatus, gitlabStatus, languages, rangeOrder, language, called>>
vars == <<factoryVars, helperVars>>

NoProvider == [kind |-> "nil", scmCfg |-> 0, auth |-> "", token |-> "", baseURL |-> <<>>]
NoReturn == [provider |-> NoProvider, err |-> ""]
Fail(e) == [provider |-> NoProvider, err |-> e]

\* ------------------------------------------------------- client construction
\* client.SetBaseURL(url) returns an error: the address does not parse, or
\* the client library (which is not part of this repository) refuses it for
\* a reason of its own, `refused`.
SetBaseURLFails(url, refused) == Malformed(url) \/ refused

newGitlabV3Client(srv, username, token, refused) ==
    LET auth == IF username = "" THEN "private" ELSE "oauth"
        url == srv \o <<"/api/", v3APIVersion>>
    IN  IF SetBaseURLFails(url, refused)
        THEN [err |-> "SetBaseURL", auth |-> "", token |-> "", baseURL |-> <<>>]
        ELSE [err |-> "", auth |-> auth, token |-> token, baseURL |-> url]

newGitlabV4Client(srv, username, token, refused) ==
    LET auth == IF username = "" THEN "private" ELSE "oauth"
        url == srv \o <<"/api/", v4APIVersion>>
    IN  IF SetBaseURLFails(url, refused)
        THEN [err |-> "SetBaseURL", auth |-> "", token |-> "", baseURL |-> <<>>]
        ELSE [err |-> "", auth |-> auth, token |-> token, baseURL |-> url]

\* NewGitlab after getAPIVersion returned `v` without error: the switch.
\* `u` stands for the pointer to the caller's config, cfg for its content.
NewGitlabSwitch(u, cfg, v, refused) ==
    IF v = v3APIVersion
    THEN LET c == newGitlabV3Client(cfg.server, cfg.username, cfg.token, refused)
         IN  IF c.err # "" THEN Fail(c.err)
             ELSE [provider |-> [kind |-> "GitlabV3", scmCfg |-> u, auth |-> c.auth,
                                 token |-> c.token, baseURL |-> c.baseURL],
                   err |-> ""]
    ELSE IF v = v4APIVersion
    THEN LET c == newGitlabV4Client(cfg.server, cfg.username, cfg.token, refused)
         IN  IF c.err # "" THEN Fail(c.err)
             ELSE [provider |-> [kind |-> "GitlabV4", scmCfg |-> u, auth |-> c.auth,
                                 token |-> c.token, baseURL |-> c.baseURL],
                   err |-> ""]
    ELSE Fail("Unsupported")

\* ------------------------------------------------------------- getOauthToken
\* A variant of getOauthTokenRequest that rewrites scm.Server before it
\* checks the credentials.
getOauthTokenRequestRewriteFirst(scm) ==
    LET s == IF Contains(scm.server, "gitlab.com") /\ HasPrefix(scm.server, "http://")
             THEN gitLabServer ELSE scm.server
        scm2 == [scm EXCEPT !.server = s]
    IN  IF scm.username = "" \/ scm.password = ""
        THEN [err |-> "MissingCredentials", scm |-> scm2, req |-> <<>>]
        ELSE IF Malformed(s)
             THEN [err |-> "NewRequest", scm |-> scm2, req |-> <<>>]
             ELSE [err |-> "", scm |-> scm2,
                   req |-> <<[method |-> "POST", url |-> s \o <<"/oauth/token">>,
                              header |-> "", token |-> ""]>>]

\* getOauthToken up to and including http.DefaultClient.Do: the credential
\* check, the public-Gitlab rewrite of scm.Server, the POST request.
getOauthTokenRequest(scm) ==
    IF scm.username = "" \/ scm.password = ""
    THEN [err |-> "MissingCredentials", scm |-> scm, req |-> <<>>]
    ELSE LET s == IF Contains(scm.server, "gitlab.com") /\ HasPrefix(scm.server, "http://")
                  THEN gitLabServer ELSE scm.server
             scm2 == [scm EXCEPT !.server = s]
         IN  IF Malformed(s)
             THEN [err |-> "NewRequest", scm |-> scm2, req |-> <<>>]
             ELSE [err |-> "", scm |-> scm2,
                   req |-> <<[method |-> "POST", url |-> s \o <<"/oauth/token">>,
                              header |-> "", token |-> ""]>>]

\* A variant of getOauthTokenResult that decodes the body whatever the status.
getOauthTokenResultAnyStatus(resp) ==
    IF resp.kind = "transport" THEN [token |-> "", err |-> "Transport"]
    ELSE IF resp.body = "readerr" THEN [token |-> "", err |-> "ReadBody"]
    ELSE IF resp.body = "garbage" THEN [token |-> "", err |-> "Decode"]
    ELSE [token |-> resp.access_token, err |-> ""]

\* getOauthToken from the response on: (token, err).
getOauthTokenResult(resp) ==
    IF resp.kind = "transport" THEN [token |-> "", err |-> "Transport"]
    ELSE IF resp.body = "readerr" THEN [token |-> "", err |-> "ReadBody"]
    ELSE IF resp.status \div 100 = 2
         THEN IF resp.body = "garbage" THEN [token |-> "", err |-> "Decode"]
              ELSE [token |-> resp.access_token, err |-> ""]
    ELSE [token |-> "", err |-> "TokenStatus"]

\* ---------------------------------------------------------- detectAPIVersion
\* A variant of detectAPIVersionRequest that leaves the token out of the
\* request.
detectAPIVersionRequestNoToken(scm) ==
    IF Malformed(scm.server \o apiPathForGitlabVersion)
    THEN [err |-> "NewRequest", req |-> <<>>]
    ELSE [err |-> "",
          req |-> <<[method |-> "GET", url |-> scm.server \o apiPathForGitlabVersion,
                     header |-> IF scm.username = "" THEN "PRIVATE-TOKEN"
                                ELSE "Authorization",
                     token |-> ""]>>]

\* detectAPIVersion from the URL formatting to client.Do: the GET request.
detectAPIVersionRequest(scm) ==
    IF Malformed(scm.server \o apiPathForGitlabVersion)
    THEN [err |-> "NewRequest", req |-> <<>>]
    ELSE [err |-> "",
          req |-> <<[method |-> "GET", url |-> scm.server \o apiPathForGitlabVersion,
                     header |-> IF scm.username = "" THEN "PRIVATE-TOKEN"
                                ELSE "Authorization",
                     token |-> scm.token]>>]

\* A variant of detectAPIVersionResult that falls back to v3 when the request
\* itself failed.
detectAPIVersionResultTransportV3(resp) ==
    IF resp.kind = "transport" THEN [version |-> v3APIVersion, err |-> ""]
    ELSE IF resp.status = StatusOK
         THEN IF resp.body = "readerr" THEN [version |-> "", err |-> "ReadBody"]
              ELSE IF resp.body = "garbage" THEN [version |-> "", err |-> "Decode"]
              ELSE [version |-> v4APIVersion, err |-> ""]
    ELSE [version |-> v3APIVersion, err |-> ""]

\* A variant of detectAPIVersionResult that rejects the statuses it does not
\* know instead of defaulting to v3.
detectAPIVersionResultStrict(resp) ==
    IF resp.kind = "transport" THEN [version |-> "", err |-> "Transport"]
    ELSE IF resp.status = StatusOK
         THEN IF resp.body = "readerr" THEN [version |-> "", err |-> "ReadBody"]
              ELSE IF resp.body = "garbage" THEN [version |-> "", err |-> "Decode"]
              ELSE [version |-> v4APIVersion, err |-> ""]
    ELSE IF resp.status \in {StatusNotFound, StatusFound}
         THEN [version |-> v3APIVersion, err |-> ""]
    ELSE [version |-> "", err |-> "Status"]

\* A variant of detectAPIVersionResult that reports the generation a 200
\* answer names, which need not be one of the two supported ones.
detectAPIVersionResultNamedTag(resp) ==
    IF resp.kind = "transport" THEN [version |-> "", err |-> "Transport"]
    ELSE IF resp.status = StatusOK
         THEN IF resp.body = "readerr" THEN [version |-> "", err |-> "ReadBody"]
              ELSE IF resp.body = "garbage" THEN [version |-> "", err |-> "Decode"]
              ELSE [version |-> "v5", err |-> ""]
    ELSE [version |-> v3APIVersion, err |-> ""]

\* A variant of detectAPIVersionResult that falls back to v3 when the body of
\* a 200 answer does not decode.
detectAPIVersionResultDecodeV3(resp) ==
    IF resp.kind = "transport" THEN [version |-> "", err |-> "Transport"]
    ELSE IF resp.status = StatusOK
         THEN IF resp.body = "readerr" THEN [version |-> "", err |-> "ReadBody"]
              ELSE IF resp.body = "garbage" THEN [version |-> v3APIVersion, err |-> ""]
              ELSE [version |-> v4APIVersion, err |-> ""]
    ELSE [version |-> v3APIVersion, err |-> ""]

\* detectAPIVersion from the response on: (version, err).
detectAPIVersionResult(resp) ==
    IF resp.kind = "transport" THEN [version |-> "", err |-> "Transport"]
    ELSE IF resp.status = StatusOK
         THEN IF resp.body = "readerr" THEN [version |-> "", err |-> "ReadBody"]
              ELSE IF resp.body = "garbage" THEN [version |-> "", err |-> "Decode"]
              ELSE [version |-> v4APIVersion, err |-> ""]
    ELSE IF resp.status \in {StatusNotFound, StatusFound}
         THEN [version |-> v3APIVersion, err |-> ""]
    ELSE [version |-> v3APIVersion, err |-> ""]

\* A variant of NeedsOauthToken that requests a token on every probe.
NeedsOauthTokenAlways(scm) == TRUE

\* The guard that opens detectAPIVersion: the token is requested only when
\* the config has none.
NeedsOauthToken(scm) == scm.token = ""

\* ------------------------------------------------------------ map accesses
InAccess(u) == pc[u] \in {"reading", "writing"}

\* Goroutine u starts a map access; it races with every access in progress
\* when one of the two is a write.  "rw": a read overlapped a write, "ww":
\* two writes overlapped.
BeginAccess(u, isWrite) ==
    LET others == Units \ {u}
        writers == {x \in others : pc[x] = "writing"}
        readers == {x \in others : pc[x] = "reading"}
    IN  raced' = [w \in Units |->
                    IF w = u
                    THEN IF isWrite
                         THEN IF writers # {} THEN "ww"
                              ELSE IF readers # {} THEN "rw" ELSE "no"
                         ELSE IF writers # {} THEN "rw" ELSE "no"
                    ELSE IF w \in writers
                         THEN IF isWrite THEN "ww"
                              ELSE IF raced[w] = "ww" THEN "ww" ELSE "rw"
                    ELSE IF w \in readers /\ isWrite THEN "rw"
                    ELSE raced[w]]

EndAccess(u) == raced' = [raced EXCEPT ![u] = "no"]

\* What the read gitlabServerAPIVersions[server] may yield: "" stands for
\* ok = false.  An unsynchronised read that overlapped a write is a data
\* race: it may see the entry, miss it, or see the value being written.
LookupResults(u) ==
    LET k == server[u]
        m == gitlabServerAPIVersions
        plain == IF k \in DOMAIN m THEN {m[k]} ELSE {""}
    IN  IF raced[u] # "no"
        THEN plain \cup {""}
             \cup {version[w] : w \in {x \in Units : pc[x] = "writing" /\ server[x] = k}}
        ELSE plain

\* The map after gitlabServerAPIVersions[k] = v.
MapAssign(m, k, v) == [x \in DOMAIN m \cup {k} |-> IF x = k THEN v ELSE m[x]]

\* A variant of StoreResults that records the classification under the
\* identity of the server as the config holds it at the time of the write.
StoreResultsCurrentServer(u) ==
    LET done == MapAssign(gitlabServerAPIVersions, ParseServerURL(scmCfg[u].server),
                          version[u])
    IN  IF raced[u] = "ww" THEN {done, gitlabServerAPIVersions} ELSE {done}

\* What the assignment may leave behind: a write that overlapped another
\* write is a data race and may be lost.
StoreResults(u) ==
    LET done == MapAssign(gitlabServerAPIVersions, server[u], version[u])
    IN  IF raced[u] = "ww" THEN {done, gitlabServerAPIVersions} ELSE {done}

\* After a call to getAPIVersion failed with e: NewGitlab returns (nil, e).
ReturnError(u, e) ==
    /\ pc' = [pc EXCEPT ![u] = "done"]
    /\ ret' = [ret EXCEPT ![u] = Fail(e)]

\* After getAPIVersion returned v: NewGitlab builds the client and returns.
ReturnProvider(u, cfg, v) ==
    /\ pc' = [pc EXCEPT ![u] = "done"]
    /\ \E refused \in BOOLEAN :
          ret' = [ret EXCEPT ![u] = NewGitlabSwitch(u, cfg, v, refused)]

\* A variant of SendProbe that issues the probe a second time.
SendProbeTwice(u, cfg) ==
    LET p == detectAPIVersionRequest(cfg)
    IN  /\ sent' = [sent EXCEPT ![u] = @ \o p.req \o p.req]
        /\ IF p.err # ""
           THEN ReturnError(u, p.err)
           ELSE /\ pc' = [pc EXCEPT ![u] = "awaitProbe"]
                /\ ret' = ret

\* detectAPIVersion issues the probe for config cfg, or fails to build it.
SendProbe(u, cfg) ==
    LET p == detectAPIVersionRequest(cfg)
    IN  /\ sent' = [sent EXCEPT ![u] = @ \o p.req]
        /\ IF p.err # ""
           THEN ReturnError(u, p.err)
           ELSE /\ pc' = [pc EXCEPT ![u] = "awaitProbe"]
                /\ ret' = ret

\* ------------------------------------------------------------------ actions
InitFactory ==
    /\ gitlabServerAPIVersions = <<>>
    /\ pc = [u \in Units |-> "idle"]
    /\ scmCfg = [u \in Units |-> NoConfig]
    /\ server = [u \in Units |-> <<>>]
    /\ version = [u \in Units |-> ""]
    /\ ret = [u \in Units |-> NoReturn]
    /\ sent = [u \in Units |-> <<>>]
    /\ raced = [u \in Units |-> "no"]
    /\ fatal = FALSE
    /\ entryCfg = [u \in Units |-> NoConfig]
    /\ knownAtEntry = [u \in Units |-> FALSE]
    /\ stored = [u \in Units |-> <<>>]
    /\ calls = 0

\* No helper has been given an argument.
InitHelpersIdle ==
    /\ recordStatus = ""
    /\ gitlabStatus = <<>>
    /\ languages = <<>>
    /\ rangeOrder = <<>>
    /\ language = ""
    /\ called = {}

Init == InitFactory /\ InitHelpersIdle

\* A goroutine calls NewGitlab(cfg) (a fresh config, or the one it passed
\* before) and getAPIVersion starts reading the map.
NewGitlab(u, cfg) ==
    /\ ~fatal
    /\ pc[u] \in {"idle", "done"}
    /\ calls < MaxCalls
    /\ calls' = calls + 1
    /\ scmCfg' = [scmCfg EXCEPT ![u] = cfg]
    /\ entryCfg' = [entryCfg EXCEPT ![u] = cfg]
    /\ server' = [server EXCEPT ![u] = ParseServerURL(cfg.server)]
    /\ knownAtEntry' = [knownAtEntry EXCEPT
                          ![u] = ParseServerURL(cfg.server) \in DOMAIN gitlabServerAPIVersions]
    /\ version' = [version EXCEPT ![u] = ""]
    /\ ret' = [ret EXCEPT ![u] = NoReturn]
    /\ sent' = [sent EXCEPT ![u] = <<>>]
    /\ stored' = [stored EXCEPT ![u] = <<>>]
    /\ pc' = [pc EXCEPT ![u] = "reading"]
    /\ BeginAccess(u, FALSE)
    /\ UNCHANGED <<gitlabServerAPIVersions, fatal>>

\* getAPIVersion: the map read completes with v (a hit) and NewGitlab
\* constructs the client.
getAPIVersionHit(u, v) ==
    /\ ~fatal
    /\ pc[u] = "reading"
    /\ v \in LookupResults(u) \ {""}
    /\ version' = [version EXCEPT ![u] = v]
    /\ ReturnProvider(u, scmCfg[u], v)
    /\ EndAccess(u)
    /\ UNCHANGED <<gitlabServerAPIVersions, scmCfg, server, sent, fatal, entryCfg,
                   knownAtEntry, stored, calls>>

\* getAPIVersion: the map read completes with ok = false; detectAPIVersion
\* runs up to its first HTTP request.
getAPIVersionMiss(u) ==
    /\ ~fatal
    /\ pc[u] = "reading"
    /\ "" \in LookupResults(u)
    /\ EndAccess(u)
    /\ IF NeedsOauthToken(scmCfg[u])
       THEN LET t == getOauthTokenRequest(scmCfg[u])
            IN  /\ scmCfg' = [scmCfg EXCEPT ![u] = t.scm]
                /\ sent' = [sent EXCEPT ![u] = @ \o t.req]
                /\ IF t.err # ""
                   THEN ReturnError(u, t.err)
                   ELSE /\ pc' = [pc EXCEPT ![u] = "awaitToken"]
                        /\ ret' = ret
       ELSE /\ scmCfg' = scmCfg
            /\ SendProbe(u, scmCfg[u])
    /\ UNCHANGED <<gitlabServerAPIVersions, server, version, fatal, entryCfg,
                   knownAtEntry, stored, calls>>

\* getOauthToken: the token exchange is answered (or fails in transport);
\* on success detectAPIVersion stores the token and issues the probe.
getOauthTokenResponse(u, resp) ==
    /\ ~fatal
    /\ pc[u] = "awaitToken"
    /\ LET r == getOauthTokenResult(resp)
       IN  IF r.err # ""
           THEN /\ ReturnError(u, r.err)
                /\ UNCHANGED <<scmCfg, sent>>
           ELSE LET cfg == [scmCfg[u] EXCEPT !.token = r.token]
                IN  /\ scmCfg' = [scmCfg EXCEPT ![u] = cfg]
                    /\ SendProbe(u, cfg)
    /\ UNCHANGED <<gitlabServerAPIVersions, server, version, raced, fatal, entryCfg,
                   knownAtEntry, stored, calls>>

\* detectAPIVersion: the probe is answered (or fails in transport); on
\* success getAPIVersion starts the map assignment.
detectAPIVersionResponse(u, resp) ==
    /\ ~fatal
    /\ pc[u] = "awaitProbe"
    /\ LET r == detectAPIVersionResult(resp)
       IN  IF r.err # ""
           THEN /\ ReturnError(u, r.err)
                /\ UNCHANGED <<version, stored, raced>>
           ELSE /\ version' = [version EXCEPT ![u] = r.version]
                /\ stored' = [stored EXCEPT
                                ![u] = Append(@, [key |-> server[u], version |-> r.version])]
                /\ pc' = [pc EXCEPT ![u] = "writing"]
                /\ ret' = ret
                /\ BeginAccess(u, TRUE)
    /\ UNCHANGED <<gitlabServerAPIVersions, scmCfg, server, sent, fatal, entryCfg,
                   knownAtEntry, calls>>

\* getAPIVersion: the map assignment completes and NewGitlab constructs the
\* client.
getAPIVersionStore(u, m) ==
    /\ ~fatal
    /\ pc[u] = "writing"
    /\ m \in StoreResults(u)
    /\ gitlabServerAPIVersions' = m
    /\ ReturnProvider(u, scmCfg[u], version[u])
    /\ EndAccess(u)
    /\ UNCHANGED <<scmCfg, server, version, sent, fatal, entryCfg, knownAtEntry,
                   stored, calls>>

\* The Go runtime detects the concurrent map access and aborts the process
\* ("fatal error: concurrent map read and map write" / "concurrent map writes").
ConcurrentMapFatal(u) ==
    /\ ~fatal
    /\ InAccess(u)
    /\ raced[u] # "no"
    /\ fatal' = TRUE
    \* the process is gone, and its memory with it
    /\ gitlabServerAPIVersions' = <<>>
    /\ pc' = [w \in Units |-> "idle"]
    /\ scmCfg' = [w \in Units |-> NoConfig]
    /\ server' = [w \in Units |-> <<>>]
    /\ version' = [w \in Units |-> ""]
    /\ ret' = [w \in Units |-> NoReturn]
    /\ sent' = [w \in Units |-> <<>>]
    /\ raced' = [w \in Units |-> "no"]
    /\ entryCfg' = [w \in Units |-> NoConfig]
    /\ knownAtEntry' = [w \in Units |-> FALSE]
    /\ stored' = [w \in Units |-> <<>>]
    /\ UNCHANGED calls

\* Goroutines call NewGitlab concurrently.
Next ==
    \/ \E u \in Units : \E cfg \in ConcurrentConfigs \cup {scmCfg[u]} :
          cfg # NoConfig /\ NewGitlab(u, cfg) /\ UNCHANGED helperVars
    \/ \E u \in Units : \E v \in {v3APIVersion, v4APIVersion} :
          getAPIVersionHit(u, v) /\ UNCHANGED helperVars
    \/ \E u \in Units : getAPIVersionMiss(u) /\ UNCHANGED helperVars
    \/ \E u \in Units : \E resp \in TokenResponses :
          getOauthTokenResponse(u, resp) /\ UNCHANGED helperVars
    \/ \E u \in Units : \E resp \in ProbeResponses :
          detectAPIVersionResponse(u, resp) /\ UNCHANGED helperVars
    \/ \E u \in Units : \E m \in StoreResults(u) :
          getAPIVersionStore(u, m) /\ UNCHANGED helperVars
    \/ \E u \in Units : ConcurrentMapFatal(u) /\ UNCHANGED helperVars

Spec == Init /\ [][Next]_vars

\* One goroutine calls NewGitlab again and again, with every config.
NextSerial ==
    \/ \E cfg \in Configs \cup {scmCfg[1]} :
          cfg # NoConfig /\ NewGitlab(1, cfg) /\ UNCHANGED helperVars
    \/ \E v \in {v3APIVersion, v4APIVersion} :
          getAPIVersionHit(1, v) /\ UNCHANGED helperVars
    \/ getAPIVersionMiss(1) /\ UNCHANGED helperVars
    \/ \E resp \in TokenResponses :
          getOauthTokenResponse(1, resp) /\ UNCHANGED helperVars
    \/ \E resp \in ProbeResponses :
          detectAPIVersionResponse(1, resp) /\ UNCHANGED helperVars
    \/ \E m \in StoreResults(1) : getAPIVersionStore(1, m) /\ UNCHANGED helperVars

SpecSerial == Init /\ [][NextSerial]_vars

\* What goroutine u does next of its own accord once it is inside NewGitlab:
\* the map access completes, the awaited HTTP answer (or transport error)
\* arrives.
Proceed(u) ==
    /\ \/ \E v \in {v3APIVersion, v4APIVersion} : getAPIVersionHit(u, v)
       \/ getAPIVersionMiss(u)
       \/ \E resp \in TokenResponses : getOauthTokenResponse(u, resp)
       \/ \E resp \in ProbeResponses : detectAPIVersionResponse(u, resp)
       \/ \E m \in StoreResults(u) : getAPIVersionStore(u, m)
    /\ UNCHANGED helperVars

\* Spec with every goroutine scheduled fairly and every HTTP request
\* eventually answered.
SpecFair == Spec /\ \A u \in Units : WF_vars(Proceed(u))

\* ------------------------------------------------------------ pure helpers

\* api.Status values a record can carry: the four the switch names, and
\* two it does not ("Pending", and a value outside the enumeration).
Statuses == {"Pending", "Running", "Success", "Failed", "Aborted", "Waiting"}

\* Variant: the default branch reports nothing at all.
transStatusPartial(status) ==
    CASE status = "Running" -> <<"running", "The Cyclone CI build is in progress.">>
      [] status = "Success" -> <<"success", "The Cyclone CI build passed.">>
      [] status = "Failed"  -> <<"failed", "The Cyclone CI build failed.">>
      [] status = "Aborted" -> <<"failed", "The Cyclone CI build failed.">>
      [] OTHER              -> <<>>

\* transStatus: state and description start as ("pending", ""), the switch
\* overwrites both in its four cases, the default case only logs.
transStatus(status) ==
    LET state == "pending"
        description == ""
    IN  CASE status = "Running" -> <<"running", "The Cyclone CI build is in progress.">>
          [] status = "Success" -> <<"success", "The Cyclone CI build passed.">>
          [] status = "Failed"  -> <<"failed", "The Cyclone CI build failed.">>
          [] status = "Aborted" -> <<"canceled", "The Cyclone CI build failed.">>
          [] OTHER              -> <<state, description>>

\* Language names and shares of a project.
LanguageNames == {"Go", "Java", "Shell"}
Shares == 0..MaxShare
LanguageMaps == UNION {[d -> Shares] : d \in SUBSET LanguageNames}

\* The orders in which a range statement may visit the keys in d.
RangeOrders(d) ==
    {o \in [1..Cardinality(d) -> d] : \A i, j \in DOMAIN o : o[i] = o[j] => i = j}

\* The loop of getTopLanguage over the keys still to visit.
RECURSIVE RangeLanguages(_, _, _, _)
RangeLanguages(langs, order, max, lang) ==
    IF order = <<>> THEN lang
    ELSE LET l == Head(order)
             value == langs[l]
         IN  IF value > max
             THEN RangeLanguages(langs, Tail(order), value, l)
             ELSE RangeLanguages(langs, Tail(order), max, lang)

\* getTopLanguage: language and max start as the zero values "" and 0.
getTopLanguage(langs, order) == RangeLanguages(langs, order, 0, "")

\* The helpers are given every argument of the bounded sets.
InitHelpers ==
    /\ InitFactory
    /\ recordStatus \in Statuses
    /\ languages \in LanguageMaps
    /\ rangeOrder \in RangeOrders(DOMAIN languages)
    /\ gitlabStatus = <<>>
    /\ language = ""
    /\ called = {}

CallTransStatus ==
    /\ "transStatus" \notin called
    /\ gitlabStatus' = transStatus(recordStatus)
    /\ called' = called \cup {"transStatus"}
    /\ UNCHANGED <<factoryVars, recordStatus, languages, rangeOrder, language>>

CallGetTopLanguage ==
    /\ "getTopLanguage" \notin called
    /\ language' = getTopLanguage(languages, rangeOrder)
    /\ called' = called \cup {"getTopLanguage"}
    /\ UNCHANGED <<factoryVars, recordStatus, languages, rangeOrder, gitlabStatus>>

NextHelpers == CallTransStatus \/ CallGetTopLanguage

SpecHelpers == InitHelpers /\ [][NextHelpers]_vars

\* ---------------------------------------------------------------- vocabulary
HasGet(u) == \E i \in 1..Len(sent[u]) : sent[u][i].method = "GET"
HasPost(u) == \E i \in 1..Len(sent[u]) : sent[u][i].method = "POST"
KindOf(v) == IF v = v3APIVersion THEN "GitlabV3" ELSE "GitlabV4"
Returned(u) == pc[u] = "done"
ReturnedProvider(u) == Returned(u) /\ ret[u].provider.kind # "nil"
TransportFailure == [kind |-> "transport", status |-> 0, body |-> "none"]

\* C1: once an identity is recorded in the version cache, no NewGitlab call
\* entered afterwards for that identity issues the probe GET.
C1_NoProbeOnceCached ==
    \A u \in Units : knownAtEntry[u] => ~HasGet(u)

\* C2: no two goroutines access the version cache at the same time with at
\* least one of them writing.
C2_MutualExclusion ==
    \A u, w \in Units :
        u # w => ~(pc[u] = "writing" /\ pc[w] \in {"reading", "writing"})

\* C3: while the process lives, an entry written to the version cache is
\* never removed and never changes to another generation tag.
C3_EntriesAreFinal ==
    [][ ~fatal' =>
          \A k \in DOMAIN gitlabServerAPIVersions :
              /\ k \in DOMAIN gitlabServerAPIVersions'
              /\ gitlabServerAPIVersions'[k] = gitlabServerAPIVersions[k] ]_vars

\* C4: two goroutines that both probed the same not-yet-cached identity wrote
\* the same tag; after both returned, the cache holds that tag and each
\* provider is of the generation the cache records.
C4_ConcurrentProbesAgree ==
    \A u, w \in Units :
        ( /\ u # w
          /\ Returned(u) /\ Returned(w)
          /\ ~knownAtEntry[u] /\ ~knownAtEntry[w]
          /\ stored[u] # <<>> /\ stored[w] # <<>>
          /\ stored[u][1].key = stored[w][1].key )
        => LET k == stored[u][1].key
           IN  /\ stored[u][1].version = stored[w][1].version
               /\ k \in DOMAIN gitlabServerAPIVersions
               /\ gitlabServerAPIVersions[k] = stored[u][1].version
               /\ ret[u].provider.kind = KindOf(gitlabServerAPIVersions[k])
               /\ ret[w].provider.kind = KindOf(gitlabServerAPIVersions[k])

\* C5: when the probe fails at transport level, NewGitlab returns an error
\* and no provider, and the call leaves the version cache as it was (it
\* executes no map assignment).
C5_TransportFailureLeavesCache ==
    [][ \A u \in Units :
          detectAPIVersionResponse(u, TransportFailure)
          => /\ pc'[u] = "done"
             /\ ret'[u].err # ""
             /\ ret'[u].provider = NoProvider
             /\ stored'[u] = <<>>
             /\ gitlabServerAPIVersions' = gitlabServerAPIVersions
             /\ ~knownAtEntry[u] => server[u] \notin DOMAIN gitlabServerAPIVersions' ]_vars
C5_Witness ==
    \E u \in Units :
        /\ Returned(u) /\ ret[u].err = "Transport"
        /\ HasGet(u) /\ ret[u].provider = NoProvider
        /\ server[u] \notin DOMAIN gitlabServerAPIVersions

\* The generation the classification table gives an answered probe:
\* 200 with a decodable body is v4, any status other than 200 is v3.
TableTag(resp) ==
    IF resp.status = StatusOK THEN v4APIVersion ELSE v3APIVersion
InTable(resp) ==
    /\ resp.kind = "http"
    /\ resp.status = StatusOK => resp.body = "json"

\* C6: an answered probe is classified by its status -- 200 with a decodable
\* body v4, 404 and 302 v3, every other status v3 and not an error -- and on
\* a cache miss that tag is the tag assigned to the cache and the generation
\* of the provider NewGitlab returns.
C6_ProbeClassification ==
    [][ \A u \in Units :
          /\ \A resp \in ProbeResponses :
                (InTable(resp) /\ detectAPIVersionResponse(u, resp))
                => /\ pc'[u] = "writing"
                   /\ version'[u] = TableTag(resp)
                   /\ stored'[u] = <<[key |-> server[u], version |-> TableTag(resp)]>>
          /\ (pc[u] = "writing" /\ pc'[u] = "done")
                => /\ raced[u] # "ww" => /\ server[u] \in DOMAIN gitlabServerAPIVersions'
                                   /\ gitlabServerAPIVersions'[server[u]] = version[u]
                   /\ ret'[u].err = "" => ret'[u].provider.kind = KindOf(version[u])
                   /\ stored'[u] = <<[key |-> server[u], version |-> version[u]]>> ]_vars
C6_Witness ==
    \E u \in Units :
        /\ ReturnedProvider(u) /\ HasGet(u)
        /\ ret[u].provider.kind = "GitlabV3"
        /\ stored[u] = <<[key |-> server[u], version |-> v3APIVersion]>>
        /\ gitlabServerAPIVersions[server[u]] = v3APIVersion
        /\ \E k \in DOMAIN gitlabServerAPIVersions :
              gitlabServerAPIVersions[k] = v4APIVersion

\* C7: whenever NewGitlab returns a provider for a config that came with an
\* empty token and non-empty username and password, the config's token is
\* non-empty and the provider's client was built with it -- on the cache-hit
\* path as on the cache-miss path.
C7_ProviderHasResolvedToken ==
    \A u \in Units :
        ( /\ ReturnedProvider(u)
          /\ entryCfg[u].token = ""
          /\ entryCfg[u].username # "" /\ entryCfg[u].password # "" )
        => /\ scmCfg[u].token # ""
           /\ ret[u].provider.token = scmCfg[u].token

\* C8: for a config whose token is already set, whatever its username and
\* password, resolving the token is a no-op: no token exchange is sent, the
\* config (its token included) stays as it was, and no credential error
\* is returned.
C8_TokenPassthrough ==
    \A u \in Units :
        (pc[u] # "idle" /\ entryCfg[u].token # "")
        => /\ ~HasPost(u)
           /\ pc[u] # "awaitToken"
           /\ scmCfg[u] = entryCfg[u]
           /\ ret[u].err \notin {"MissingCredentials", "TokenStatus"}
C8_Witness ==
    \E u \in Units :
        /\ ReturnedProvider(u) /\ HasGet(u)
        /\ entryCfg[u].token # ""
        /\ entryCfg[u].username = "" /\ entryCfg[u].password = "pw"
        /\ ret[u].provider.token = entryCfg[u].token

MissingCredentials(scm) ==
    scm.token = "" /\ (scm.username = "" \/ scm.password = "")

\* C9: on a cache miss with an empty token and an empty username or password,
\* the token resolution fails with MissingCredentials before any request is
\* sent and without changing the config; NewGitlab fails, sends no probe and
\* leaves the cache unchanged.
C9_MissingCredentials ==
    [][ \A u \in Units :
          (getAPIVersionMiss(u) /\ MissingCredentials(scmCfg[u]))
          => /\ pc'[u] = "done"
             /\ ret'[u] = Fail("MissingCredentials")
             /\ sent'[u] = <<>>
             /\ scmCfg'[u] = entryCfg[u]
             /\ stored'[u] = <<>>
             /\ gitlabServerAPIVersions' = gitlabServerAPIVersions
             /\ ~knownAtEntry[u] => server[u] \notin DOMAIN gitlabServerAPIVersions' ]_vars
C9_Witness ==
    \E u \in Units :
        /\ Returned(u) /\ ret[u] = Fail("MissingCredentials")
        /\ entryCfg[u].server = <<"http://", "gitlab.com">>
        /\ entryCfg[u].username = "user" /\ entryCfg[u].password = ""
        /\ sent[u] = <<>>

\* The answers to the token exchange that the claim counts as failures.
ExchangeFailed(resp) ==
    \/ resp.kind = "transport"
    \/ resp.status \notin 200..299
    \/ resp.body \in {"readerr", "garbage"}

\* C10: on a cache miss with an empty token the token exchange POST comes
\* strictly before the probe GET; when the exchange fails, the error is
\* returned, no probe is sent, the token stays empty, the call leaves the
\* cache unchanged and constructs no provider.
C10_ExchangeBeforeProbe ==
    /\ [](\A u \in Units :
            entryCfg[u].token = ""
            => \A i \in 1..Len(sent[u]) :
                  sent[u][i].method = "GET"
                  => \E j \in 1..(i - 1) : sent[u][j].method = "POST")
    /\ [][ \A u \in Units : \A resp \in TokenResponses :
             (ExchangeFailed(resp) /\ getOauthTokenResponse(u, resp))
             => /\ pc'[u] = "done"
                /\ ret'[u].err # ""
                /\ ret'[u].provider = NoProvider
                /\ ~HasGet(u)'
                /\ scmCfg'[u].token = ""
                /\ stored'[u] = <<>>
                /\ gitlabServerAPIVersions' = gitlabServerAPIVersions
                /\ ~knownAtEntry[u] => server[u] \notin DOMAIN gitlabServerAPIVersions' ]_vars
C10_Witness ==
    \E u \in Units :
        /\ Returned(u) /\ ret[u].err = "TokenStatus"
        /\ HasPost(u) /\ ~HasGet(u)
        /\ scmCfg[u].token = ""
        /\ server[u] \notin DOMAIN gitlabServerAPIVersions

\* Number of requests with the given method the current call has issued.
Count(u, method) ==
    Cardinality({i \in 1..Len(sent[u]) : sent[u][i].method = method})
\* The answers to the probe that end the call with an error.
ProbeFailed(resp) ==
    \/ resp.kind = "transport"
    \/ resp.status = StatusOK /\ resp.body \in {"readerr", "garbage"}

\* C11: one NewGitlab call issues at most one probe GET and at most one
\* token-exchange POST; a transport failure or a failing answer ends the call
\* with an error and no further request.
C11_NoRetries ==
    /\ [](\A u \in Units : Count(u, "GET") <= 1 /\ Count(u, "POST") <= 1)
    /\ [][ \A u \in Units :
             /\ \A resp \in TokenResponses :
                   (ExchangeFailed(resp) /\ getOauthTokenResponse(u, resp))
                   => /\ pc'[u] = "done" /\ ret'[u].err # ""
                      /\ sent'[u] = sent[u]
             /\ \A resp \in ProbeResponses :
                   (ProbeFailed(resp) /\ detectAPIVersionResponse(u, resp))
                   => /\ pc'[u] = "done" /\ ret'[u].err # ""
                      /\ sent'[u] = sent[u] ]_vars
C11_Witness ==
    \E u \in Units :
        /\ Returned(u) /\ ret[u].err = "Transport"
        /\ Len(sent[u]) = 2
        /\ sent[u][1].method = "POST" /\ sent[u][2].method = "GET"

\* The host of a server address: its pieces between the scheme and the path.
Host(s) == SelectSeq(Tail(s), LAMBDA piece : piece \notin {"/", "/%zz"})
\* The address names the public Gitlab host over plain http.
PublicInsecure(s) ==
    Len(s) >= 1 /\ s[1] = "http://" /\ Host(s) = <<"gitlab.com">>

\* C12: while a call resolves the token, config.server is rewritten to
\* https://gitlab.com exactly when its host is the public host gitlab.com
\* and its scheme is http; any other server value is left unchanged.
C12_RewriteOnlyPublicHost ==
    [][ \A u \in Units :
          (pc[u] \notin {"idle", "done"} /\ ~fatal')
          => /\ scmCfg'[u].server # scmCfg[u].server
                => /\ PublicInsecure(scmCfg[u].server)
                   /\ scmCfg'[u].server = gitLabServer
             /\ ( /\ getAPIVersionMiss(u)
                  /\ NeedsOauthToken(scmCfg[u])
                  /\ ~MissingCredentials(scmCfg[u])
                  /\ PublicInsecure(scmCfg[u].server) )
                => scmCfg'[u].server = gitLabServer ]_vars

\* ---------------------------------------------------------------- C13
\* C13: transStatus is total and maps Running to ("running", "The Cyclone
\* CI build is in progress."), Success to ("success", "The Cyclone CI build
\* passed."), Failed to state "failed", Aborted to state "canceled", and
\* every other status to ("pending", "").
C13_TransStatusTable ==
    "transStatus" \in called =>
        /\ Len(gitlabStatus) = 2
        /\ recordStatus = "Running" =>
               gitlabStatus = <<"running", "The Cyclone CI build is in progress.">>
        /\ recordStatus = "Success" =>
               gitlabStatus = <<"success", "The Cyclone CI build passed.">>
        /\ recordStatus = "Failed" => gitlabStatus[1] = "failed"
        /\ recordStatus = "Aborted" => gitlabStatus[1] = "canceled"
        /\ recordStatus \notin {"Running", "Success", "Failed", "Aborted"} =>
               gitlabStatus = <<"pending", "">>

\* An aborted record has been translated.
C13_Witness ==
    "transStatus" \in called /\ recordStatus = "Aborted" /\ gitlabStatus[1] = "canceled"

\* ---------------------------------------------------------------- C14
\* C14: getTopLanguage returns, for every non-empty mapping in which one
\* key has a value strictly greater than all others, that key; for the
\* empty mapping it returns the empty string.
C14_TopLanguage ==
    "getTopLanguage" \in called =>
        /\ DOMAIN languages = {} => language = ""
        /\ \A k \in DOMAIN languages :
               (\A j \in DOMAIN languages \ {k} : languages[k] > languages[j])
               => language = k

\* ---------------------------------------------------------------- C15
\* The token carried by the probe GET of the current call ("" when none).
ProbeToken(u) ==
    IF \E i \in 1..Len(sent[u]) : sent[u][i].method = "GET"
    THEN sent[u][Len(sent[u])].token
    ELSE ""

\* C15: on a cache miss with an initially empty token, a successful token
\* exchange stores its access token in the caller's config and the probe
\* carries exactly that token; when NewGitlab then returns a provider, the
\* config still holds that token and the provider refers to the caller's
\* config object and was built with its token.
C15_TokenResolvedInPlace ==
    /\ [][ \A u \in Units : \A resp \in TokenResponses :
             (~ExchangeFailed(resp) /\ getOauthTokenResponse(u, resp))
             => /\ scmCfg'[u].token = resp.access_token
                /\ pc'[u] = "awaitProbe"
                   => /\ sent'[u][Len(sent'[u])].method = "GET"
                      /\ sent'[u][Len(sent'[u])].token = resp.access_token ]_vars
    /\ [](\A u \in Units :
             (ReturnedProvider(u) /\ HasPost(u) /\ entryCfg[u].token = "")
             => /\ HasGet(u)
                /\ ProbeToken(u) = scmCfg[u].token
                /\ ret[u].provider.scmCfg = u
                /\ ret[u].provider.token = scmCfg[u].token)
C15_Witness ==
    \E u \in Units :
        /\ ReturnedProvider(u) /\ HasPost(u) /\ HasGet(u)
        /\ entryCfg[u].token = ""
        /\ scmCfg[u].token = "T" /\ ProbeToken(u) = "T"
        /\ ret[u].provider.scmCfg = u /\ ret[u].provider.token = "T"

\* ---------------------------------------------------------------- C16
\* The last call of u recorded a classification and then failed to construct
\* the client.
ConstructionFailedAfterProbe(u) ==
    Returned(u) /\ stored[u] # <<>> /\ ret[u].err = "SetBaseURL"

\* C16: the cache write precedes the construction of the client: when the
\* probe succeeds on a cache miss and the construction then fails, NewGitlab
\* returns an error and no provider, the classification is and stays
\* recorded under the call's identity, and a later call that finds the
\* identity recorded sends no probe.
C16_WriteBeforeConstruction ==
    /\ [][ \A u \in Units :
             (pc[u] = "writing" /\ pc'[u] = "done" /\ ret'[u].err # "")
             => /\ ret'[u].err = "SetBaseURL"
                /\ ret'[u].provider = NoProvider
                /\ server[u] \in DOMAIN gitlabServerAPIVersions'
                /\ gitlabServerAPIVersions'[server[u]] = version[u] ]_vars
    /\ [](\A u \in Units :
             ConstructionFailedAfterProbe(u)
             => /\ server[u] \in DOMAIN gitlabServerAPIVersions
                /\ \A w \in Units :
                      (knownAtEntry[w] /\ server[w] = server[u]) => ~HasGet(w))

\* ---------------------------------------------------------------- C17
\* The identity k is under probe: some call missed it and has not returned.
Probing(k) ==
    \E u \in Units : pc[u] \in {"awaitToken", "awaitProbe", "writing"} /\ server[u] = k

\* C17: with every HTTP request eventually answered and the callers
\* scheduled fairly, every NewGitlab call eventually returns a provider or
\* an error, and no identity stays under probe forever.
C17_ProbingIsTransient ==
    /\ \A u \in Units :
          (pc[u] \notin {"idle", "done"}) ~> (pc[u] = "done")
    /\ \A k \in {ParseServerURL(s) : s \in Servers} :
          Probing(k) ~> ~Probing(k)

EntryKey(u) == ParseServerURL(entryCfg[u].server)
\* The keys whose entry a step adds or changes.
Written(k) ==
    /\ k \in DOMAIN gitlabServerAPIVersions'
    /\ k \in DOMAIN gitlabServerAPIVersions
          => gitlabServerAPIVersions'[k] # gitlabServerAPIVersions[k]

\* C19: the classification is recorded under the identity of config.server
\* as it was when NewGitlab was entered, also when the token exchange has
\* rewritten config.server to https://gitlab.com in between, and a call
\* writes no entry under any other key.
C19_KeyIsEntryIdentity ==
    [][ /\ \A k \in DOMAIN gitlabServerAPIVersions' :
             Written(k) => \E u \in Units :
                              /\ pc[u] = "writing" /\ pc'[u] = "done"
                              /\ k = EntryKey(u)
        /\ \A u \in Units :
             (pc[u] = "writing" /\ pc'[u] = "done" /\ raced[u] # "ww")
             => /\ EntryKey(u) \in DOMAIN gitlabServerAPIVersions'
                /\ gitlabServerAPIVersions'[EntryKey(u)] = version[u] ]_vars
C19_Witness ==
    \E u \in Units :
        /\ Returned(u) /\ stored[u] # <<>>
        /\ scmCfg[u].server = gitLabServer
        /\ entryCfg[u].server = <<"http://", "gitlab.com">>
        /\ EntryKey(u) \in DOMAIN gitlabServerAPIVersions
        /\ ParseServerURL(scmCfg[u].server) \notin DOMAIN gitlabServerAPIVersions

\* ---------------------------------------------------------------- C20
\* A probe answer with status 200 and a body that is not a version object.
UndecodableOK == [kind |-> "http", status |-> StatusOK, body |-> "garbage"]

\* C20: a probe answered 200 with a body that does not decode is not
\* classified: the call ends with an error and no provider, executes no map
\* assignment and leaves the version cache unchanged.
C20_UndecodableBodyIsAnError ==
    [][ \A u \in Units :
          detectAPIVersionResponse(u, UndecodableOK)
          => /\ pc'[u] = "done"
             /\ ret'[u].err # ""
             /\ ret'[u].provider = NoProvider
             /\ version'[u] = ""
             /\ stored'[u] = <<>>
             /\ gitlabServerAPIVersions' = gitlabServerAPIVersions ]_vars
C20_Witness ==
    \E u \in Units :
        /\ Returned(u) /\ HasGet(u) /\ ret[u].err = "Decode"
        /\ ret[u].provider = NoProvider /\ stored[u] = <<>>
        /\ server[u] \notin DOMAIN gitlabServerAPIVersions

====
